---- MODULE Spec2Model ----
(***************************************************************************)
(* Model of the Middleman escrow contract (src/middleman/src/lib.rs).      *)
(*                                                                         *)
(* The contract storage (offers_count, offers_with_id, offers_to,          *)
(* offers_from) and the ledger balances the contract's transfers act on    *)
(* are the state.  Every endpoint is one atomic step: the host adds the    *)
(* attached payment to the contract's balance, runs the endpoint, and      *)
(* either commits all of its writes and transfers or reverts all of them   *)
(* (a failed require!, a failed storage decode, a failed transfer).        *)
(***************************************************************************)
EXTENDS Integers, Sequences, FiniteSets, TLC

\* ------------------------------------------------------------------ bounds

\* create_offer is explored while offers_count <= MaxOffers.
MaxOffers == 2

\* Largest number of token units attached to one call.
MaxQty == 2

\* Native balance every address starts with.
InitEgld == 200

\* Units of the semi-fungible token every address starts with.
InitTok == 2

\* ------------------------------------------------------- the environment

Addrs == {"a1", "a2"}

\* The deployer: the only address #[only_owner] lets through.
Owner == "a1"

\* The contract's own account on the ledger.
SC == "sc"

Accounts == Addrs \cup {SC}

EGLD == "EGLD"

TOK == "TOK-1"

\* An asset is a token identifier and a nonce; EGLD always has nonce 0.
Assets == {<<EGLD, 0>>, <<TOK, 1>>}

\* Amounts a holder asks for.
Amounts == {99, 100}

\* Ids a caller passes: 0 (never issued) and every id that can be issued.
Ids == 0..MaxOffers

VARIABLES
    offers_count,     \* SingleValueMapper<u64>
    offers_with_id,   \* id -> Offer, on the ids that have a stored record
    offers_to,        \* address -> sequence of ids (spender role)
    offers_from,      \* address -> sequence of ids (holder role)
    balance,          \* ledger: account -> asset -> units
    deposited,        \* history: id -> the payment create_offer received
    returned,         \* history: the ids successful create_offer calls returned
    last              \* the last invocation and its outcome

vars == <<offers_count, offers_with_id, offers_to, offers_from, balance,
          deposited, returned, last>>

storage == <<offers_count, offers_with_id, offers_to, offers_from>>

\* ------------------------------------------------------------ the ledger

\* The host's transfer primitive: moves `amount` of (token, nonce) from
\* `from` to `to`; fails when `from` holds less.
Transfer(bal, from, to, token, nonce, amount) ==
    IF bal[from][<<token, nonce>>] < amount
    THEN [ok |-> FALSE, bal |-> bal]
    ELSE [ok |-> TRUE,
          bal |-> [a \in Accounts |->
                     [x \in Assets |->
                        IF x # <<token, nonce>> THEN bal[a][x]
                        ELSE LET out == IF a = from THEN amount ELSE 0
                                 in  == IF a = to THEN amount ELSE 0
                             IN  bal[a][x] - out + in]]]

\* self.send().direct(to, token, nonce, amount, data)
direct(bal, to, token, nonce, amount) ==
    Transfer(bal, SC, to, token, nonce, amount)

\* self.send().direct_egld(to, amount, data)
direct_egld(bal, to, amount) ==
    Transfer(bal, SC, to, EGLD, 0, amount)

\* Variant of get_sc_balance that leaves one unit out.
get_sc_balance_less_one(bal) ==
    IF bal[SC][<<EGLD, 0>>] > 0 THEN bal[SC][<<EGLD, 0>>] - 1 ELSE 0

\* self.blockchain().get_sc_balance(&TokenIdentifier::egld(), 0)
get_sc_balance(bal) == bal[SC][<<EGLD, 0>>]

\* A record of one transfer the contract issued.
Sent(to, token, nonce, amount) ==
    [to |-> to, token |-> token, nonce |-> nonce, amount |-> amount]

\* ------------------------------------------------------------- outcomes

\* Variant of Abort that keeps the counter write made before the failure.
Abort_keeping_count(msg) ==
    [status |-> msg, ret |-> 0, sent |-> <<>>,
     count |-> offers_count + 1, offers |-> offers_with_id,
     to |-> offers_to, from |-> offers_from, bal |-> balance]

\* An aborted invocation: nothing of it persists.
Abort(msg) ==
    [status |-> msg, ret |-> 0, sent |-> <<>>,
     count |-> offers_count, offers |-> offers_with_id,
     to |-> offers_to, from |-> offers_from, bal |-> balance]

\* A committed invocation.
Commit(ret, sent, count, offers, to, from, bal) ==
    [status |-> "ok", ret |-> ret, sent |-> sent,
     count |-> count, offers |-> offers, to |-> to, from |-> from, bal |-> bal]

\* Variant of set_if_empty that stores the value unconditionally.
set_if_empty_always(stored, value) == value

\* SingleValueMapper::set_if_empty: a u64 of 0 is stored as no bytes at all.
set_if_empty(stored, value) == IF stored = 0 THEN value ELSE stored

\* ------------------------------------------------------------ endpoints

\* Variant of next_offers_count that skips an id.
next_offers_count_skip(id) == id + 2

\* self.offers_count().set(&id + 1)
next_offers_count(id) == id + 1

\* Variant of push that records the id twice.
push_twice(vec, id) == Append(Append(vec, id), id)

\* .update(|vec| vec.push(id))
push(vec, id) == Append(vec, id)

\* Variant of is_holder that lets every caller through.
is_holder_unchecked(offer, caller) == TRUE

\* require!(offer.nft_holder == caller, ...)
is_holder(offer, caller) == offer.nft_holder = caller

\* require!(offer.spender == caller, ...)
is_spender(offer, caller) == offer.spender = caller

\* Variant of is_submitted that accepts every status.
is_submitted_unchecked(offer) == TRUE

\* require!(offer.status == Status::Submitted, ...)
is_submitted(offer) == offer.status = "Submitted"

\* Variant of amount_matches that tolerates an overpayment.
amount_matches_at_least(egld_amount, offer) == egld_amount >= offer.amount

\* require!(egld_amount == offer.amount, ...)
amount_matches(egld_amount, offer) == egld_amount = offer.amount

\* #[init]
init ==
    Commit(0, <<>>, set_if_empty(offers_count, 1), offers_with_id,
           offers_to, offers_from, balance)

\* #[only_owner] #[endpoint(withdrawBalance)]
withdraw_balance(caller) ==
    IF caller # Owner
    THEN Abort("Endpoint can only be called by owner")
    ELSE LET sc_balance == get_sc_balance(balance)
             tx == direct_egld(balance, caller, sc_balance)
         IN  IF ~tx.ok
             THEN Abort("insufficient funds")
             ELSE Commit(0, <<Sent(caller, EGLD, 0, sc_balance)>>,
                         offers_count, offers_with_id, offers_to,
                         offers_from, tx.bal)

\* #[payable("*")] #[endpoint(createOffer)]; qty is the attached quantity,
\* which the endpoint never reads.
create_offer(caller, token_id, nonce, qty, spender, amount) ==
    LET paid == Transfer(balance, caller, SC, token_id, nonce, qty).bal
    IN
    IF ~(amount >= 0)
    THEN Abort("The amount specified is below zero")
    ELSE LET id == offers_count
             from1 == [offers_from EXCEPT ![caller] = push(@, id)]
             to1 == [offers_to EXCEPT ![spender] = push(@, id)]
             count1 == next_offers_count(id)
             offer == [id |-> id, spender |-> spender, nft_holder |-> caller,
                       amount |-> amount, token_id |-> token_id,
                       nonce |-> nonce, status |-> "Submitted"]
             tx == direct_egld(paid, spender, 1)
         IN  IF ~tx.ok
             THEN Abort("insufficient funds")
             ELSE Commit(id, <<Sent(spender, EGLD, 0, 1)>>, count1,
                         [i \in DOMAIN offers_with_id \cup {id} |->
                            IF i = id THEN offer ELSE offers_with_id[i]],
                         to1, from1, tx.bal)

\* Variant of delete_offer that stores the offer back with the caller written
\* over its spender.
delete_offer_rewrites_spender(caller, id) ==
    IF id \notin DOMAIN offers_with_id
    THEN Abort("storage decode error")
    ELSE LET offer == offers_with_id[id]
         IN
         IF ~is_holder(offer, caller)
         THEN Abort("You are not the creator of this offer")
         ELSE IF ~is_submitted(offer)
         THEN Abort("Offer deleted or completed")
         ELSE LET tx == direct(balance, caller, offer.token_id, offer.nonce, 1)
              IN  IF ~tx.ok
                  THEN Abort("insufficient funds")
                  ELSE Commit(id,
                              <<Sent(caller, offer.token_id, offer.nonce, 1)>>,
                              offers_count,
                              [offers_with_id EXCEPT ![id].status = "Deleted",
                                                     ![id].spender = caller],
                              offers_to, offers_from, tx.bal)

\* Variant of delete_offer that reads a missing record as an all-default
\* offer instead of failing to decode it.
delete_offer_defaulting(caller, id) ==
    LET offer == IF id \in DOMAIN offers_with_id
                 THEN offers_with_id[id]
                 ELSE [id |-> 0, spender |-> "", nft_holder |-> "",
                       amount |-> 0, token_id |-> EGLD, nonce |-> 0,
                       status |-> "Submitted"]
    IN
    IF ~is_holder(offer, caller)
    THEN Abort("You are not the creator of this offer")
    ELSE IF ~is_submitted(offer)
    THEN Abort("Offer deleted or completed")
    ELSE LET tx == direct(balance, caller, offer.token_id, offer.nonce, 1)
         IN  IF ~tx.ok
             THEN Abort("insufficient funds")
             ELSE Commit(id,
                         <<Sent(caller, offer.token_id, offer.nonce, 1)>>,
                         offers_count,
                         [offers_with_id EXCEPT ![id].status = "Deleted"],
                         offers_to, offers_from, tx.bal)

\* #[endpoint(deleteOffer)]
delete_offer(caller, id) ==
    IF id \notin DOMAIN offers_with_id
    THEN Abort("storage decode error")
    ELSE LET offer == offers_with_id[id]
         IN
         IF ~is_holder(offer, caller)
         THEN Abort("You are not the creator of this offer")
         ELSE IF ~is_submitted(offer)
         THEN Abort("Offer deleted or completed")
         ELSE LET tx == direct(balance, caller, offer.token_id, offer.nonce, 1)
              IN  IF ~tx.ok
                  THEN Abort("insufficient funds")
                  ELSE Commit(id,
                              <<Sent(caller, offer.token_id, offer.nonce, 1)>>,
                              offers_count,
                              [offers_with_id EXCEPT ![id].status = "Deleted"],
                              offers_to, offers_from, tx.bal)

\* The 2% fee: the holder is paid egld_amount * FeeNum / FeeDen.
FeeNum == 98

FeeDen == 100

\* Variant of real_amount that rounds the payout up.
real_amount_rounded_up(egld_amount) ==
    (egld_amount * FeeNum + FeeDen - 1) \div FeeDen

\* big_amount = egld_amount * 98; real_amount = big_amount / 100 (truncating)
real_amount(egld_amount) == (egld_amount * FeeNum) \div FeeDen

\* #[payable("*")] #[endpoint(acceptOffer)]; pay_nonce is the attached
\* payment's nonce, which the endpoint never reads.
accept_offer(caller, token_id, pay_nonce, egld_amount, id) ==
    LET paid == Transfer(balance, caller, SC, token_id, pay_nonce,
                         egld_amount).bal
    IN
    IF id \notin DOMAIN offers_with_id
    THEN Abort("storage decode error")
    ELSE LET offer == offers_with_id[id]
         IN
         IF ~is_spender(offer, caller)
         THEN Abort("You are not the spender designated for this offer")
         ELSE IF token_id # EGLD
         THEN Abort("Only pay with egld")
         ELSE IF ~is_submitted(offer)
         THEN Abort("Offer deleted or completed")
         ELSE IF ~amount_matches(egld_amount, offer)
         THEN Abort("Incorrect egld amount")
         ELSE LET tx1 == direct_egld(paid, offer.nft_holder,
                                     real_amount(egld_amount))
                  tx2 == direct(tx1.bal, caller, offer.token_id,
                                offer.nonce, 1)
              IN  IF ~tx1.ok \/ ~tx2.ok
                  THEN Abort("insufficient funds")
                  ELSE Commit(id,
                              <<Sent(offer.nft_holder, EGLD, 0,
                                     real_amount(egld_amount)),
                                Sent(caller, offer.token_id, offer.nonce, 1)>>,
                              offers_count,
                              [offers_with_id EXCEPT ![id].status = "Completed"],
                              offers_to, offers_from, tx2.bal)

\* ---------------------------------------------------------------- views

\* for id in &offers { match status { Submitted => counter += 1, _ => () } }
RECURSIVE CountSubmitted(_, _)
CountSubmitted(offers, counter) ==
    IF offers = <<>> THEN counter
    ELSE CountSubmitted(Tail(offers),
                        IF offers_with_id[Head(offers)].status = "Submitted"
                        THEN counter + 1 ELSE counter)

\* #[view(getNbSubmittedFor)]
get_nb_submitted_for(caller) ==
    LET offers == offers_to[caller] \o offers_from[caller]
    IN  CountSubmitted(offers, 0)

\* for id in &offers { match status { Submitted => vec.push(id), _ => () } }
RECURSIVE PushSubmitted(_, _)
PushSubmitted(offers, vec) ==
    IF offers = <<>> THEN vec
    ELSE PushSubmitted(Tail(offers),
                       IF offers_with_id[Head(offers)].status = "Submitted"
                       THEN Append(vec, Head(offers)) ELSE vec)

\* Variant of get_offers_submitted_to that does not filter by status.
get_offers_submitted_to_unfiltered(caller) == offers_to[caller]

\* #[view(getOffersSubmittedTo)]
get_offers_submitted_to(caller) == PushSubmitted(offers_to[caller], <<>>)

\* #[view(getOffersSubmittedFrom)]
get_offers_submitted_from(caller) == PushSubmitted(offers_from[caller], <<>>)

\* for id in (1..nb_offers).rev() { if len < nb_offers_to_display { ... } }
RECURSIVE RevScan(_, _, _)
RevScan(id, vec, nb_offers_to_display) ==
    IF id < 1 THEN vec
    ELSE RevScan(id - 1,
                 IF Len(vec) < nb_offers_to_display
                 THEN IF offers_with_id[id].status = "Completed"
                      THEN Append(vec, id) ELSE vec
                 ELSE vec,
                 nb_offers_to_display)

\* Variant of get_last_completed_offers that ignores the limit.
get_last_completed_offers_unlimited(nb_offers_to_display) ==
    RevScan(offers_count - 1, <<>>, offers_count)

\* #[view(getLastCompletedOffers)]
get_last_completed_offers(nb_offers_to_display) ==
    LET nb_offers == offers_count
    IN  RevScan(nb_offers - 1, <<>>, nb_offers_to_display)

\* ------------------------------------------------------- the state machine

NoPay == <<EGLD, 0, 0>>

\* What create_offer callers can attach: up to MaxQty units of an asset they hold.
CreatePayments(caller) ==
    {p \in {<<x[1], x[2], q>> : x \in Assets, q \in 1..MaxQty} :
        balance[caller][<<p[1], p[2]>>] >= p[3]}

\* What accept_offer callers can attach: a native amount, or a token unit.
AcceptPayments(caller) ==
    {p \in {<<EGLD, 0, a>> : a \in Amounts} \cup {<<TOK, 1, 1>>} :
        balance[caller][<<p[1], p[2]>>] >= p[3]}

\* The host runs one invocation to completion and persists its outcome r:
\* the storage writes and the transfers of a committed invocation, nothing
\* of an aborted one.
Persist(r) ==
    /\ offers_count' = r.count
    /\ offers_with_id' = r.offers
    /\ offers_to' = r.to
    /\ offers_from' = r.from
    /\ balance' = r.bal

\* What the caller and the ledger observe of the invocation.
Observe(op, caller, id, pay, r) ==
    /\ deposited' = IF op = "create_offer" /\ r.status = "ok"
                    THEN [i \in DOMAIN deposited \cup {r.ret} |->
                            IF i = r.ret THEN pay ELSE deposited[i]]
                    ELSE deposited
    /\ returned' = IF op = "create_offer" /\ r.status = "ok"
                   THEN Append(returned, r.ret)
                   ELSE returned
    /\ last' = IF r.status = "ok"
               THEN [op |-> op, status |-> "ok", caller |-> caller,
                     id |-> IF op = "create_offer" THEN r.ret ELSE id,
                     pay |-> pay, sent |-> r.sent]
               ELSE [op |-> op, status |-> r.status, caller |-> "none",
                     id |-> 0, pay |-> NoPay, sent |-> <<>>]

Init ==
    /\ offers_count = set_if_empty(0, 1)
    /\ offers_with_id = <<>>
    /\ offers_to = [a \in Addrs |-> <<>>]
    /\ offers_from = [a \in Addrs |-> <<>>]
    /\ balance = [a \in Accounts |->
                    [x \in Assets |->
                       IF a = SC THEN 0
                       ELSE IF x[1] = EGLD THEN InitEgld ELSE InitTok]]
    /\ deposited = <<>>
    /\ returned = <<>>
    /\ last = [op |-> "deploy", status |-> "ok", caller |-> Owner, id |-> 0,
               pay |-> NoPay, sent |-> <<>>]

\* The owner upgrades the contract, which runs init again.
Upgrade ==
    LET r == init
    IN  /\ Persist(r)
        /\ Observe("init", Owner, 0, NoPay, r)

WithdrawBalance ==
    \E caller \in Addrs :
        LET r == withdraw_balance(caller)
        IN  /\ Persist(r)
            /\ Observe("withdraw_balance", caller, 0, NoPay, r)

CreateOffer ==
    /\ offers_count <= MaxOffers
    /\ \E caller \in Addrs, spender \in Addrs, amount \in Amounts :
         \E pay \in CreatePayments(caller) :
            LET r == create_offer(caller, pay[1], pay[2], pay[3],
                                  spender, amount)
            IN  /\ Persist(r)
                /\ Observe("create_offer", caller, 0, pay, r)

DeleteOffer ==
    \E caller \in Addrs, id \in Ids :
        LET r == delete_offer(caller, id)
        IN  /\ Persist(r)
            /\ Observe("delete_offer", caller, id, NoPay, r)

AcceptOffer ==
    \E caller \in Addrs, id \in Ids :
        \E pay \in AcceptPayments(caller) :
            LET r == accept_offer(caller, pay[1], pay[2], pay[3], id)
            IN  /\ Persist(r)
                /\ Observe("accept_offer", caller, id, pay, r)

Next ==
    \/ Upgrade
    \/ WithdrawBalance
    \/ CreateOffer
    \/ DeleteOffer
    \/ AcceptOffer

Spec == Init /\ [][Next]_vars

\* ------------------------------------------------------ error taxonomy

Unauthorized ==
    {"You are not the creator of this offer",
     "You are not the spender designated for this offer",
     "Endpoint can only be called by owner"}

InvalidState == {"Offer deleted or completed"}

PaymentMismatch == {"Only pay with egld", "Incorrect egld amount"}

\* ------------------------------------------------------------- helpers

Range(seq) == {seq[i] : i \in 1..Len(seq)}

Terminal == {"Completed", "Deleted"}

\* An outcome that issues no transfer and leaves storage and ledger as they are.
NoEffect(r) ==
    /\ r.sent = <<>>
    /\ r.count = offers_count
    /\ r.offers = offers_with_id
    /\ r.to = offers_to
    /\ r.from = offers_from
    /\ r.bal = balance

\* The outcome of accept_offer by `caller` with payment `pay`.
Accept(caller, pay, id) == accept_offer(caller, pay[1], pay[2], pay[3], id)

\* --------------------------------------------------------------- claims

\* C1: an offer's status changes only from Submitted to Completed (by a
\* successful accept_offer on its id) or from Submitted to Deleted (by a
\* successful delete_offer on its id); once it is Completed or Deleted no
\* delete_offer or accept_offer on that id succeeds, for any caller and any
\* payment, and no step changes the status again.
C1_StatusClosure ==
    [][/\ \A id \in DOMAIN offers_with_id :
            LET before == offers_with_id[id].status
                after == offers_with_id'[id].status
            IN  /\ id \in DOMAIN offers_with_id'
                /\ before \in Terminal => after = before
                /\ before # after =>
                     /\ before = "Submitted"
                     /\ last'.status = "ok"
                     /\ last'.id = id
                     /\ \/ after = "Completed" /\ last'.op = "accept_offer"
                        \/ after = "Deleted" /\ last'.op = "delete_offer"
       /\ (last'.op \in {"delete_offer", "accept_offer"} /\ last'.status = "ok")
            => /\ last'.id \in DOMAIN offers_with_id
               /\ offers_with_id[last'.id].status = "Submitted"
      ]_vars

\* C1 witness: a delete_offer or accept_offer on a terminated offer was
\* just refused, with both terminal statuses present in the store.
C1_Witness ==
    /\ last.op \in {"delete_offer", "accept_offer"}
    /\ last.status \in InvalidState
    /\ \E i, j \in DOMAIN offers_with_id :
         /\ offers_with_id[i].status = "Completed"
         /\ offers_with_id[j].status = "Deleted"

\* C2: on an existing offer of any status, delete_offer by anyone but the
\* holder and accept_offer by anyone but the spender fail with Unauthorized,
\* issue no transfer and leave Counter, Offer Store, Party Index (and the
\* ledger) unchanged.
C2_Authorization ==
    \A id \in DOMAIN offers_with_id : \A caller \in Addrs :
        /\ caller # offers_with_id[id].nft_holder =>
             /\ delete_offer(caller, id).status
                  = "You are not the creator of this offer"
             /\ delete_offer(caller, id).status \in Unauthorized
             /\ NoEffect(delete_offer(caller, id))
        /\ caller # offers_with_id[id].spender =>
             \A pay \in AcceptPayments(caller) :
                /\ Accept(caller, pay, id).status
                     = "You are not the spender designated for this offer"
                /\ Accept(caller, pay, id).status \in Unauthorized
                /\ NoEffect(Accept(caller, pay, id))

\* C2 witness: a delete_offer by a non-holder was just refused while the
\* store holds a terminated offer and a Submitted one.
C2_Witness ==
    /\ last.op = "delete_offer"
    /\ last.status = "You are not the creator of this offer"
    /\ \E i, j \in DOMAIN offers_with_id :
         /\ offers_with_id[i].status \in Terminal
         /\ offers_with_id[j].status = "Submitted"
         /\ offers_with_id[j].nft_holder # offers_with_id[j].spender

\* C3: accept_offer by the spender on a Submitted offer succeeds only with
\* the native asset and exactly the offer's amount; with another asset, an
\* underpayment or an overpayment it fails with PaymentMismatch and has no
\* effect: the offer stays Submitted, the escrow stays, nothing is paid.
C3_ExactPayment ==
    \A id \in DOMAIN offers_with_id :
        LET offer == offers_with_id[id]
        IN  offer.status = "Submitted" =>
              \A pay \in AcceptPayments(offer.spender) :
                 LET r == Accept(offer.spender, pay, id)
                     exact == pay[1] = EGLD /\ pay[3] = offer.amount
                 IN  /\ r.status = "ok" => exact
                     /\ ~exact =>
                          /\ r.status \in PaymentMismatch
                          /\ NoEffect(r)
                          /\ r.offers[id].status = "Submitted"
                          /\ r.bal[SC] = balance[SC]
                          /\ r.bal[offer.nft_holder] = balance[offer.nft_holder]

\* C3 witness: the spender of a Submitted offer was just refused for a wrong
\* amount, with an offer in the store it could overpay and one it could
\* underpay.
C3_Witness ==
    /\ last.op = "accept_offer"
    /\ last.status = "Incorrect egld amount"
    /\ \E i, j \in DOMAIN offers_with_id :
         /\ offers_with_id[i].status = "Submitted"
         /\ offers_with_id[j].status = "Submitted"
         /\ offers_with_id[i].amount < offers_with_id[j].amount

\* floor(A * 98 / 100), stated without division.
FloorPayout(A) == CHOOSE p \in 0..A : 100 * p <= 98 * A /\ 98 * A < 100 * (p + 1)

\* What a successful accept_offer of `offer` moves on the ledger, for
\* account a and asset x: A from the spender to the contract, the payout
\* from the contract to the holder, one escrowed unit to the spender.
AcceptDelta(offer, a, x) ==
    LET A == offer.amount
        p == FloorPayout(A)
        native == IF x = <<EGLD, 0>>
                  THEN (IF a = SC THEN A - p ELSE 0)
                       + (IF a = offer.spender THEN 0 - A ELSE 0)
                       + (IF a = offer.nft_holder THEN p ELSE 0)
                  ELSE 0
        escrow == IF x = <<offer.token_id, offer.nonce>>
                  THEN (IF a = SC THEN 0 - 1 ELSE 0)
                       + (IF a = offer.spender THEN 1 ELSE 0)
                  ELSE 0
    IN  native + escrow

\* C4: a successful accept_offer of an offer with amount A transfers exactly
\* floor(A*98/100) of the native asset to the holder and one unit of the
\* offer's (asset_id, asset_subid) to the spender, sets the status to
\* Completed, and of the payment A keeps exactly A - floor(A*98/100) in the
\* contract (the escrowed unit handed over is accounted on its own asset);
\* payout plus fee is A; A = 100 pays 98 and A = 99 pays 97.
C4_Settlement ==
    [][(last'.op = "accept_offer" /\ last'.status = "ok") =>
         LET id == last'.id
             offer == offers_with_id[id]
             A == offer.amount
             p == FloorPayout(A)
         IN  /\ offer.status = "Submitted"
             /\ last'.caller = offer.spender
             /\ last'.pay = <<EGLD, 0, A>>
             /\ last'.sent = <<Sent(offer.nft_holder, EGLD, 0, p),
                               Sent(offer.spender, offer.token_id,
                                    offer.nonce, 1)>>
             /\ offers_with_id' = [offers_with_id EXCEPT
                                     ![id].status = "Completed"]
             /\ \A a \in Accounts : \A x \in Assets :
                  balance'[a][x] = balance[a][x] + AcceptDelta(offer, a, x)
             /\ p + (A - p) = A
             /\ A = 100 => p = 98
             /\ A = 99 => p = 97 /\ A - p = 2
      ]_vars

\* C4 witness: an offer with amount 99, whose payout truncates, was just
\* accepted, after one with amount 100 was completed.
C4_Witness ==
    /\ last.op = "accept_offer"
    /\ last.status = "ok"
    /\ offers_with_id[last.id].amount = 99
    /\ \E i \in DOMAIN offers_with_id :
         /\ offers_with_id[i].amount = 100
         /\ offers_with_id[i].status = "Completed"

\* C5: create_offer by H attaching units of a token (T, N), then
\* delete_offer by H, returns to H exactly what create_offer deposited: the
\* same collection, the same instance and the same quantity; the offer's
\* status is then Deleted.
C5_CancelReturnsDeposit ==
    (/\ last.op = "delete_offer"
     /\ last.status = "ok"
     /\ offers_with_id[last.id].token_id # EGLD) =>
        LET id == last.id
        IN  /\ offers_with_id[id].status = "Deleted"
            /\ last.caller = offers_with_id[id].nft_holder
            /\ last.sent = <<Sent(last.caller, deposited[id][1],
                                  deposited[id][2], deposited[id][3])>>

\* C6: the k-th successful create_offer returns id k, and the Counter is
\* always 1 plus the number of successful creations, whatever failed or
\* other invocations are interleaved.
C6_MonotonicIds ==
    /\ returned = [k \in 1..Len(returned) |-> k]
    /\ offers_count = Len(returned) + 1
    /\ (last.op = "create_offer" /\ last.status = "ok") =>
          /\ last.id = Len(returned)
          /\ last.id = offers_count - 1

\* C6 witness: the second creation just succeeded and returned 2, with an
\* accept_offer on the first offer in between.
C6_Witness ==
    /\ last.op = "create_offer"
    /\ last.status = "ok"
    /\ last.id = 2
    /\ offers_with_id[1].status = "Completed"

\* Number of positions of seq holding id.
Occurrences(seq, id) == Cardinality({i \in 1..Len(seq) : seq[i] = id})

IsPrefix(s, t) == Len(s) <= Len(t) /\ \A i \in 1..Len(s) : s[i] = t[i]

\* Every offer id is once in its holder's holder-role list, once in its
\* spender's spender-role list, and nowhere else; lists hold issued ids only.
IndexExact ==
    /\ \A id \in DOMAIN offers_with_id : \A a \in Addrs :
         /\ Occurrences(offers_from[a], id)
              = IF a = offers_with_id[id].nft_holder THEN 1 ELSE 0
         /\ Occurrences(offers_to[a], id)
              = IF a = offers_with_id[id].spender THEN 1 ELSE 0
    /\ \A a \in Addrs :
         Range(offers_from[a]) \cup Range(offers_to[a])
            \subseteq DOMAIN offers_with_id

\* C7: every offer id appears exactly once in the holder-role list of its
\* holder, exactly once in the spender-role list of its spender and in no
\* other list; the lists only grow by appending (never removed from or
\* reordered, in particular by delete_offer and accept_offer) and never
\* hold an id twice.
C7_PartyIndex ==
    [][/\ IndexExact
       /\ IndexExact'
       /\ \A a \in Addrs :
            /\ IsPrefix(offers_from[a], offers_from'[a])
            /\ IsPrefix(offers_to[a], offers_to'[a])
      ]_vars

\* C7 witness: an address is holder and spender of one offer and holder of
\* another, after a delete_offer or accept_offer terminated one of them.
C7_Witness ==
    /\ last.op \in {"delete_offer", "accept_offer"}
    /\ last.status = "ok"
    /\ \E a \in Addrs :
         /\ Len(offers_from[a]) = 2
         /\ Len(offers_to[a]) = 1

\* C8: count_submitted_for(address) is the number of Submitted offers in
\* which the address is holder or spender, also when it is both.
C8_CountSubmitted ==
    \A a \in Addrs :
        get_nb_submitted_for(a)
          = Cardinality({id \in DOMAIN offers_with_id :
                           /\ offers_with_id[id].status = "Submitted"
                           /\ \/ offers_with_id[id].nft_holder = a
                              \/ offers_with_id[id].spender = a})

Completed == {id \in DOMAIN offers_with_id :
                offers_with_id[id].status = "Completed"}

Min(a, b) == IF a <= b THEN a ELSE b

\* C9: last_completed_offers(limit) is, for every limit >= 0, the
\* min(limit, number of Completed offers) highest Completed ids in strictly
\* descending order; limit 0 gives the empty sequence.
C9_LastCompleted ==
    \A limit \in 0..(MaxOffers + 1) :
        LET r == get_last_completed_offers(limit)
        IN  /\ Len(r) = Min(limit, Cardinality(Completed))
            /\ Range(r) \subseteq Completed
            /\ \A i \in 1..Len(r) : \A j \in 1..Len(r) : i < j => r[i] > r[j]
            /\ \A c \in Completed \ Range(r) : \A i \in 1..Len(r) : r[i] > c
            /\ limit = 0 => r = <<>>

\* C9 witness: two offers are Completed, so that a limit of 1 cuts the
\* result and a limit of 2 orders it.
C9_Witness ==
    /\ Cardinality(Completed) = 2
    /\ get_last_completed_offers(1) = <<2>>
    /\ get_last_completed_offers(2) = <<2, 1>>

\* r lists, in the order of `index`, exactly the Submitted ids of `index`.
SubmittedSubsequence(r, index) ==
    /\ Range(r) = {id \in Range(index) :
                     offers_with_id[id].status = "Submitted"}
    /\ \A i \in 1..Len(r) : \A j \in 1..Len(r) :
         i < j => \E m \in 1..Len(index) : \E n \in 1..Len(index) :
                     m < n /\ index[m] = r[i] /\ index[n] = r[j]

\* C10: offers_submitted_to(a) is the subsequence, in insertion order, of
\* a's spender-role list whose offers are Submitted, offers_submitted_from(a)
\* the same for the holder-role list; an id is in its spender's and holder's
\* result exactly while its offer is Submitted, and its index entries stay.
C10_QueryConsistency ==
    /\ \A a \in Addrs :
         /\ SubmittedSubsequence(get_offers_submitted_to(a), offers_to[a])
         /\ SubmittedSubsequence(get_offers_submitted_from(a), offers_from[a])
    /\ \A id \in DOMAIN offers_with_id :
         LET offer == offers_with_id[id]
         IN  /\ id \in Range(get_offers_submitted_to(offer.spender))
                  <=> offer.status = "Submitted"
             /\ id \in Range(get_offers_submitted_from(offer.nft_holder))
                  <=> offer.status = "Submitted"
             /\ id \in Range(offers_to[offer.spender])
             /\ id \in Range(offers_from[offer.nft_holder])

\* C10 witness: an address is spender of two offers, the first terminated
\* and filtered out of the result, its index entry still there.
C10_Witness ==
    \E a \in Addrs :
        /\ offers_to[a] = <<1, 2>>
        /\ get_offers_submitted_to(a) = <<2>>
        /\ last.op \in {"delete_offer", "accept_offer"}
        /\ last.status = "ok"

NotFound == {"storage decode error"}

\* The fields of an offer record that are set at creation.
WriteOnce(offer) ==
    <<offer.id, offer.nft_holder, offer.spender, offer.amount,
      offer.token_id, offer.nonce>>

\* C11: a successful delete_offer(id) or accept_offer(id) changes only the
\* status field of offer id; every step keeps the id, holder, spender,
\* amount, asset_id and asset_subid of every stored offer, and a successful
\* delete_offer or accept_offer leaves every other record, the Counter and
\* all Party Index lists unchanged.
C11_WriteOnceFrame ==
    [][/\ \A id \in DOMAIN offers_with_id :
            /\ id \in DOMAIN offers_with_id'
            /\ WriteOnce(offers_with_id'[id]) = WriteOnce(offers_with_id[id])
       /\ (last'.op \in {"delete_offer", "accept_offer"} /\ last'.status = "ok")
            => /\ offers_with_id' =
                    [offers_with_id EXCEPT ![last'.id].status =
                        IF last'.op = "delete_offer"
                        THEN "Deleted" ELSE "Completed"]
               /\ offers_with_id' # offers_with_id
               /\ UNCHANGED <<offers_count, offers_to, offers_from>>
      ]_vars

\* C11 witness: an offer whose holder and spender differ was just deleted
\* by its holder while another offer is in the store.
C11_Witness ==
    /\ last.op = "delete_offer"
    /\ last.status = "ok"
    /\ offers_with_id[last.id].spender # offers_with_id[last.id].nft_holder
    /\ Cardinality(DOMAIN offers_with_id) = 2

\* Ids that were never issued, among those a caller passes.
NeverIssued == {id \in Ids \cup {offers_count} : id = 0 \/ id >= offers_count}

\* C12: delete_offer or accept_offer with an id that was never issued (0, or
\* at least the Counter) aborts for every caller and every payment: it is
\* not read as a default offer, issues no transfer, creates no record and
\* leaves Counter, Offer Store, Party Index (and the ledger) unchanged.
C12_NotFound ==
    \A id \in NeverIssued : \A caller \in Addrs :
        /\ id \notin DOMAIN offers_with_id
        /\ delete_offer(caller, id).status \in NotFound
        /\ NoEffect(delete_offer(caller, id))
        /\ \A pay \in AcceptPayments(caller) :
             /\ Accept(caller, pay, id).status \in NotFound
             /\ NoEffect(Accept(caller, pay, id))

\* C12 witness: a delete_offer on an id not issued yet was just refused
\* while the store holds a Submitted offer.
C12_Witness ==
    /\ last.op = "delete_offer"
    /\ last.status \in NotFound
    /\ offers_count = 2
    /\ offers_with_id[1].status = "Submitted"

\* Assets other than the native one.
Tokens == {x \in Assets : x[1] # EGLD}

C14_IdempotentBootstrap ==
    [][/\ last.op = "deploy" => offers_count = 1
       /\ last'.op = "init" =>
            /\ last'.status = "ok"
            /\ UNCHANGED <<offers_count, offers_with_id, offers_to,
                           offers_from, balance, deposited, returned>>
       /\ offers_count' >= offers_count
       /\ \A i, j \in DOMAIN returned' : returned'[i] = returned'[j] => i = j
      ]_vars

\* C14 witness: the bootstrap just ran again after two offers were created.
C14_Witness ==
    /\ last.op = "init"
    /\ offers_count = 3
    /\ returned = <<1, 2>>

\* The exact native payment for an offer.
ExactPay(offer) == <<EGLD, 0, offer.amount>>

\* C15: for every Submitted offer whose spender can pay the exact amount, a
\* delete_offer by the holder and an accept_offer by the spender each
\* succeed when they come first, and the one that comes second fails with
\* InvalidState; delete first sends the escrowed asset to the holder and
\* nothing else, accept first pays the holder and sends the escrowed asset
\* to the spender.
C15_CancelAcceptRace ==
    [][\A id \in DOMAIN offers_with_id :
         LET offer == offers_with_id[id]
             holder == offer.nft_holder
             spender == offer.spender
         IN  (/\ offer.status = "Submitted"
              /\ ExactPay(offer) \in AcceptPayments(spender)) =>
                /\ delete_offer(holder, id).status = "ok"
                /\ Accept(spender, ExactPay(offer), id).status = "ok"
                /\ (last'.op = "delete_offer" /\ last'.status = "ok"
                        /\ last'.id = id) =>
                     /\ last'.caller = holder
                     /\ last'.sent = <<Sent(holder, offer.token_id,
                                            offer.nonce, 1)>>
                     /\ (ExactPay(offer) \in AcceptPayments(spender))' =>
                          (Accept(spender, ExactPay(offer), id).status
                                \in InvalidState)'
                /\ (last'.op = "accept_offer" /\ last'.status = "ok"
                        /\ last'.id = id) =>
                     /\ last'.caller = spender
                     /\ last'.sent = <<Sent(holder, EGLD, 0,
                                            real_amount(offer.amount)),
                                       Sent(spender, offer.token_id,
                                            offer.nonce, 1)>>
                     /\ (delete_offer(holder, id).status \in InvalidState)'
      ]_vars

\* The same race restricted to offers whose escrowed asset is not the
\* native one.
C15_TokenRace ==
    [][\A id \in DOMAIN offers_with_id :
         LET offer == offers_with_id[id]
             holder == offer.nft_holder
             spender == offer.spender
         IN  (/\ offer.status = "Submitted"
              /\ offer.token_id # EGLD
              /\ ExactPay(offer) \in AcceptPayments(spender)) =>
                /\ delete_offer(holder, id).status = "ok"
                /\ Accept(spender, ExactPay(offer), id).status = "ok"
                /\ (last'.op = "delete_offer" /\ last'.status = "ok"
                        /\ last'.id = id) =>
                     /\ last'.sent = <<Sent(holder, offer.token_id,
                                            offer.nonce, 1)>>
                     /\ (ExactPay(offer) \in AcceptPayments(spender))' =>
                          (Accept(spender, ExactPay(offer), id).status
                                \in InvalidState)'
                /\ (last'.op = "accept_offer" /\ last'.status = "ok"
                        /\ last'.id = id) =>
                     /\ last'.sent = <<Sent(holder, EGLD, 0,
                                            real_amount(offer.amount)),
                                       Sent(spender, offer.token_id,
                                            offer.nonce, 1)>>
                     /\ (delete_offer(holder, id).status \in InvalidState)'
      ]_vars

\* The Submitted offers on asset x.
SubmittedOn(x) ==
    {id \in DOMAIN offers_with_id :
        /\ offers_with_id[id].status = "Submitted"
        /\ <<offers_with_id[id].token_id, offers_with_id[id].nonce>> = x}

\* C16: when every create_offer so far attached exactly one unit, the
\* contract holds, of every asset, as many units as there are Submitted
\* offers on that asset, and a unit just sent out was sent by the
\* delete_offer or accept_offer that terminated an offer on that asset.
C16_EscrowConservation ==
    (\A id \in DOMAIN deposited : deposited[id][3] = 1) =>
        /\ \A x \in Assets : balance[SC][x] = Cardinality(SubmittedOn(x))
        /\ \A i \in DOMAIN last.sent :
             last.sent[i].token # EGLD =>
                /\ last.op \in {"delete_offer", "accept_offer"}
                /\ offers_with_id[last.id].status \in Terminal
                /\ offers_with_id[last.id].token_id = last.sent[i].token
                /\ offers_with_id[last.id].nonce = last.sent[i].nonce
                /\ last.sent[i].amount = 1

\* C17: the ids that have an offer record are exactly 1 .. Counter-1, each
\* record's id field equals its key, and every id in a Party Index list has
\* an offer record.
C17_StoreCounterConsistency ==
    /\ DOMAIN offers_with_id = 1..(offers_count - 1)
    /\ \A id \in DOMAIN offers_with_id : offers_with_id[id].id = id
    /\ \A a \in Addrs :
         /\ Range(offers_to[a]) \subseteq DOMAIN offers_with_id
         /\ Range(offers_from[a]) \subseteq DOMAIN offers_with_id

\* C17 witness: the second create_offer was just committed, with both index
\* lists of some party non-empty.
C17_Witness ==
    /\ last.op = "create_offer"
    /\ last.status = "ok"
    /\ offers_count = 3
    /\ \E a \in Addrs : offers_to[a] # <<>> /\ offers_from[a] # <<>>

\* C18: a create_offer, delete_offer or accept_offer that aborts leaves the
\* Counter, the Offer Store, the Party Index and all balances as they were;
\* create_offer aborts only at its notification transfer, when the contract
\* has no native unit to send, and then none of its writes persists.
C18_AllOrNothing ==
    [][(/\ last'.op \in {"create_offer", "delete_offer", "accept_offer"}
        /\ last'.status # "ok") =>
            /\ UNCHANGED <<offers_count, offers_with_id, offers_to,
                           offers_from, balance, deposited, returned>>
            /\ last'.sent = <<>>
            /\ last'.op = "create_offer" =>
                  /\ last'.status = "insufficient funds"
                  /\ get_sc_balance(balance) = 0
      ]_vars

\* C18 witness: a create_offer was just aborted at its notification
\* transfer while an earlier offer is stored.
C18_Witness ==
    /\ last.op = "create_offer"
    /\ last.status = "insufficient funds"
    /\ offers_count = 2
    /\ offers_from # [a \in Addrs |-> <<>>]

\* C19: in every reachable state a create_offer by any caller attaching one
\* unit of an asset, with any spender and any amount, succeeds and returns
\* the current Counter value.
C19_CreateAlwaysAvailable ==
    \A caller \in Addrs, spender \in Addrs, amount \in Amounts :
        \A pay \in CreatePayments(caller) :
            pay[3] = 1 =>
                LET r == create_offer(caller, pay[1], pay[2], pay[3],
                                      spender, amount)
                IN  /\ r.status = "ok"
                    /\ r.ret = offers_count

\* C20: in every reachable state every Submitted offer can be terminated:
\* delete_offer by its holder succeeds, and accept_offer by its spender with
\* the native asset and the exact amount succeeds.
C20_NoStuckEscrow ==
    \A id \in DOMAIN offers_with_id :
        LET offer == offers_with_id[id]
        IN  offer.status = "Submitted" =>
                /\ delete_offer(offer.nft_holder, id).status = "ok"
                /\ ExactPay(offer) \in AcceptPayments(offer.spender) =>
                      Accept(offer.spender, ExactPay(offer), id).status = "ok"

====
